---- MODULE Spec2Model ----
(***************************************************************************)
(* Heatmap tile generation (heatmaps/generate.py, heatmap_c/heatmap_c.py). *)
(*                                                                         *)
(* Coordinates.  The code works on floating point (lat, lng) degrees and   *)
(* the Pseudo-Mercator projection.  Here a coordinate is an integer number *)
(* of world units on the projected plane: the world is 2^25 units wide and *)
(* high (one unit is about one metre), lng grows eastwards from 0 and lat  *)
(* grows northwards from 0, so that a tile of zoom z spans 2^(25-z) units. *)
(* Distances (PostGIS ST_DWithin, the haversine metric of DBSCAN) are the  *)
(* Chebyshev distance on that plane, in the same units (metres).  Every    *)
(* quotient the code compares with a whole number is compared exactly, by  *)
(* cross-multiplication.  The code places a venue in its tile by a linear  *)
(* interpolation of lat and lng between the tile's corners; so does the    *)
(* model, on the plane.                                                    *)
(*                                                                         *)
(* The external services (the database, the rasterizer, S3) may raise.     *)
(* What they answer is a function of the request, so that two runs of the  *)
(* program on the same data can be compared.                               *)
(***************************************************************************)
EXTENDS Integers, Sequences, FiniteSets, TLC

\* ------------------------------------------------------------ parameters
MIN_ZOOM == 10
\* 16 in the source; the zoom range is cut to keep the model finite
MAX_ZOOM == 11
ZOOM_STEP == 1
RADIUS == 17500
TILE_RESOLUTION == 256
RUN_BY_CATEGORY == 1
RUN_BY_ZOOM == 2
\* range(1, 5) in the source: categories 1..4; cut to 1..MaxCategory
MaxCategory == 2
\* how many requests to the external services (database, rasterizer, S3) fail
MaxFaults == 1
\* the dot sizes 1..MaxDotsize are tried besides those of ZOOM_PARAMETERS
MaxDotsize == 2
\* a pixel position is a multiple of 1/den, for den in 1..MaxDen
MaxDen == 2
\* the longest list of points that is clustered on its own
MaxPoints == 6
\* the tiles that are cut lie in a box of GridWidth x GridHeight tiles
GridWidth == 3
GridHeight == 2

\* cluster_epsilon is in metres here (0.5 km = 500)
ZOOM_PARAMETERS ==
  (10 :> [dotsize |-> 10, opacity |-> 1, cluster |-> TRUE, cluster_epsilon |-> 500, cluster_neighbors |-> 4]) @@
  (11 :> [dotsize |-> 10, opacity |-> 1, cluster |-> TRUE, cluster_epsilon |-> 500, cluster_neighbors |-> 4]) @@
  (12 :> [dotsize |-> 15, opacity |-> 1, cluster |-> TRUE, cluster_epsilon |-> 500, cluster_neighbors |-> 4]) @@
  (13 :> [dotsize |-> 15, opacity |-> 1, cluster |-> TRUE, cluster_epsilon |-> 650, cluster_neighbors |-> 4]) @@
  (14 :> [dotsize |-> 20, opacity |-> 1, cluster |-> TRUE, cluster_epsilon |-> 650, cluster_neighbors |-> 4]) @@
  (15 :> [dotsize |-> 40, opacity |-> 1, cluster |-> TRUE, cluster_epsilon |-> 800, cluster_neighbors |-> 4]) @@
  (16 :> [dotsize |-> 60, opacity |-> 1, cluster |-> TRUE, cluster_epsilon |-> 800, cluster_neighbors |-> 4]) @@
  (17 :> [dotsize |-> 80, opacity |-> 1, cluster |-> FALSE, cluster_epsilon |-> 1000, cluster_neighbors |-> 1]) @@
  (18 :> [dotsize |-> 100, opacity |-> 1, cluster |-> FALSE, cluster_epsilon |-> 1000, cluster_neighbors |-> 2])

\* range(1, 5)
Categories == 1..MaxCategory
\* range(MIN_ZOOM, MAX_ZOOM + 1, ZOOM_STEP)
Zooms == {z \in MIN_ZOOM..MAX_ZOOM : (z - MIN_ZOOM) % ZOOM_STEP = 0}
Units == Categories \X Zooms

\* ------------------------------------------------------------ helpers
Abs(n) == IF n < 0 THEN -n ELSE n
Max(a, b) == IF a < b THEN b ELSE a
SetMin(S) == CHOOSE m \in S : \A n \in S : m <= n
SetMax(S) == CHOOSE m \in S : \A n \in S : n <= m
\* floor of a / b for b > 0 (np.floor, and int() on a value that is >= 0)
Floor(a, b) == a \div b

\* the plane is 2^25 units wide; one tile of the zoom level spans this many units
TileSpan(zoom_level) == 2 ^ (25 - zoom_level)
World == 2 ^ 25

\* great-circle distance in metres (haversine, ST_DWithin)
Distance(p, q) == Max(Abs(p[1] - q[1]), Abs(p[2] - q[2]))

\* ------------------------------------------------------------ projection
\* (x, y) of the tile that holds (lat, lng): the floor of the Mercator point
convert_coords_to_tile(lat, lng, zoom_level) ==
  <<Floor(lng, TileSpan(zoom_level)), Floor(World - lat, TileSpan(zoom_level))>>

\* (lat, lng) of the Mercator point (x, y)
convert_point_to_coords(x, y, zoom_level) ==
  <<World - y * TileSpan(zoom_level), x * TileSpan(zoom_level)>>

\* ------------------------------------------------------------ data source
\* SELECT lat, lng ... WHERE category_id = category AND ST_DWithin(geog_point,
\* POINT(lng lat), radius): the rows of the table, each stored as (lng, lat)
Query(table, category, lat, lng, radius) ==
  SelectSeq(table[category], LAMBDA row : Distance(row, <<lng, lat>>) <= radius)

\* ------------------------------------------------------------ clustering
\* sklearn's DBSCAN(eps, min_samples).fit(pts).labels_: a point is a core point
\* when at least min_samples points (itself included) lie within eps of it, and
\* noise (-1) when it is no core point and no core point lies within eps of it.
\* Which cluster a point falls in is not looked at by the code: it is 0 here.
Neighborhood(points, i, eps) ==
  {j \in 1..Len(points) : Distance(points[i], points[j]) <= eps}

IsCore(points, i, eps, min_samples) ==
  Cardinality(Neighborhood(points, i, eps)) >= min_samples

DBSCAN(points, eps, min_samples) ==
  [i \in 1..Len(points) |->
     IF \E j \in Neighborhood(points, i, eps) : IsCore(points, j, eps, min_samples)
     THEN 0 ELSE -1]

\* list.remove(value): drops the first element equal to the value
ListRemove(list, value) ==
  LET k == CHOOSE k \in 1..Len(list) :
             list[k] = value /\ \A m \in 1..(k - 1) : list[m] # value
  IN  SubSeq(list, 1, k - 1) \o SubSeq(list, k + 1, Len(list))

\* for idx, val in reversed(list(enumerate(labels_))):
\*     if val == -1: pts.remove((pts[idx][0], pts[idx][1]))
\* idx runs from the last index down; the list shrinks while it runs
RECURSIVE RemoveNoise(_, _, _)
RemoveNoise(points, labels, idx) ==
  IF idx = 0 THEN points
  ELSE IF labels[idx] = -1
       THEN RemoveNoise(ListRemove(points, points[idx]), labels, idx - 1)
       ELSE RemoveNoise(points, labels, idx - 1)

\* the clustering step of generate_heatmap_by_city and generate_tile
Clustered(points, params) ==
  RemoveNoise(points,
              DBSCAN(points, params.cluster_epsilon, params.cluster_neighbors),
              Len(points))

\* ------------------------------------------------------------ edge bleed
\* the clipping tests without the nesting: a corner tile whenever its
\* horizontal test holds
NeighborTilesUnnested(pixel_x, pixel_y, den, x, y, dotsize) ==
  LET left   == pixel_x < dotsize * den
      top    == pixel_y < dotsize * den
      right  == (TILE_RESOLUTION * den - pixel_x) < dotsize * den
      bottom == (TILE_RESOLUTION * den - pixel_y) < dotsize * den
  IN  (IF left
       THEN {<<x - 1, y>>, <<x - 1, y - 1>>}
            \cup (IF bottom THEN {<<x - 1, y + 1>>} ELSE {})
       ELSE {})
      \cup (IF top THEN {<<x, y - 1>>} ELSE {})
      \cup (IF right
            THEN {<<x + 1, y>>}
                 \cup (IF top THEN {<<x + 1, y - 1>>} ELSE {})
                 \cup (IF bottom THEN {<<x + 1, y + 1>>} ELSE {})
            ELSE {})
      \cup (IF bottom THEN {<<x, y + 1>>} ELSE {})

\* The neighbors of tile (x, y) added for a venue at pixel (pixel_x / den,
\* pixel_y / den) of the tile: the chain of "Clipping on the ..." tests
NeighborTiles(pixel_x, pixel_y, den, x, y, dotsize) ==
  LET left   == pixel_x < dotsize * den
      top    == pixel_y < dotsize * den
      right  == (TILE_RESOLUTION * den - pixel_x) < dotsize * den
      bottom == (TILE_RESOLUTION * den - pixel_y) < dotsize * den
  IN  (IF left
       THEN {<<x - 1, y>>}
            \cup (IF top THEN {<<x - 1, y - 1>>} ELSE {})
            \cup (IF bottom THEN {<<x - 1, y + 1>>} ELSE {})
       ELSE {})
      \cup (IF top THEN {<<x, y - 1>>} ELSE {})
      \cup (IF right
            THEN {<<x + 1, y>>}
                 \cup (IF top THEN {<<x + 1, y - 1>>} ELSE {})
                 \cup (IF bottom THEN {<<x + 1, y + 1>>} ELSE {})
            ELSE {})
      \cup (IF bottom THEN {<<x, y + 1>>} ELSE {})

\* One pass of "for venue in pts": the venue's tile and its clipped neighbors.
\* A venue is (lng, lat); its pixel in the tile is a quotient over the tile's
\* span, scaled by TILE_RESOLUTION - 1.
VenueTiles(venue, zoom_level, dotsize) ==
  LET tile == convert_coords_to_tile(venue[2], venue[1], zoom_level)
      x == tile[1]
      y == tile[2]
      min_coords == convert_point_to_coords(x, y + 1, zoom_level)
      max_coords == convert_point_to_coords(x + 1, y, zoom_level)
      pixel_y == (max_coords[1] - venue[2]) * (TILE_RESOLUTION - 1)
      pixel_x == (venue[1] - min_coords[2]) * (TILE_RESOLUTION - 1)
      den == max_coords[1] - min_coords[1]
  IN  {tile} \cup NeighborTiles(pixel_x, pixel_y, den, x, y, dotsize)

\* the list tiles after the loop and sorted(tiles): it holds no tile twice, so
\* it is the set of its members
LocateTiles(points, zoom_level, dotsize) ==
  UNION {VenueTiles(points[k], zoom_level, dotsize) : k \in 1..Len(points)}

\* ------------------------------------------------------------ canvas
NwTile(tile_list) ==
  <<SetMin({t[1] : t \in tile_list}), SetMin({t[2] : t \in tile_list})>>
SeTile(tile_list) ==
  <<SetMax({t[1] : t \in tile_list}), SetMax({t[2] : t \in tile_list})>>
NumXTiles(tile_list) == SeTile(tile_list)[1] - NwTile(tile_list)[1] + 1
NumYTiles(tile_list) == SeTile(tile_list)[2] - NwTile(tile_list)[2] + 1

\* (resolution_x, resolution_y) of the citywide heatmap
CanvasSize(tile_list) ==
  <<TILE_RESOLUTION * NumXTiles(tile_list), TILE_RESOLUTION * NumYTiles(tile_list)>>

\* normalized_pts, as the rasterizer reads them: int(lng), int(lat)
NormalizedPts(points, tile_list, zoom_level) ==
  LET nw_tile == NwTile(tile_list)
      se_tile == SeTile(tile_list)
      min_coords == convert_point_to_coords(nw_tile[1], se_tile[2] + 1, zoom_level)
      max_coords == convert_point_to_coords(se_tile[1] + 1, nw_tile[2], zoom_level)
      resolution_x == CanvasSize(tile_list)[1]
      resolution_y == CanvasSize(tile_list)[2]
  IN  [k \in 1..Len(points) |->
        <<Floor((points[k][1] - min_coords[2]) * (resolution_x - 1),
                max_coords[2] - min_coords[2]),
          Floor((max_coords[1] - points[k][2]) * (resolution_y - 1),
                max_coords[1] - min_coords[1])>>]

\* Heatmap.heatmap(points, opacity, dotsize, size): the image is a function of
\* what the rasterizer is given
Heatmap(points, opacity, dotsize, size) ==
  [points |-> points, opacity |-> opacity, dotsize |-> dotsize, size |-> size]

\* img.crop((left, upper, right, lower)) of tile (i, j) of the canvas
CropBox(i, j) ==
  <<TILE_RESOLUTION * i, TILE_RESOLUTION * j,
    TILE_RESOLUTION * (i + 1), TILE_RESOLUTION * (j + 1)>>

\* "{0}_{1}_{2}_{3}.png".format(category, zoom, x, y)
FileName(category, zoom_level, x, y) == <<category, zoom_level, x, y>>

\* ------------------------------------------------------------ the data
\* The centre the program is run for, as (lat, lng): 200 units east of a tile
\* border of every zoom level, and near the south border of its zoom 11 tile
Coord == <<World - (385 * TileSpan(10) + 16000), 301 * TileSpan(10) + 200>>

\* a venue (lng, lat) east and north of the centre
Venue(east, north) == <<Coord[2] + east, Coord[1] + north>>

\* The venues of one category: none; two lone venues; a cluster of four and a
\* lone venue; two clusters, one of them beyond RADIUS - 2500 of the centre;
\* a cluster between two venues of the same coordinates
Towns ==
  << <<>>,
     <<Venue(-5000, 17000), Venue(0, 0)>>,
     <<Venue(0, 0), Venue(100, 0), Venue(0, 100), Venue(100, 100),
       Venue(-5000, 17000)>>,
     <<Venue(0, 0), Venue(100, 0), Venue(0, 100), Venue(100, 100),
       Venue(16000, 0), Venue(16100, 0), Venue(16000, 100), Venue(16100, 100)>>,
     <<Venue(-5000, 17000), Venue(0, 0), Venue(100, 0), Venue(0, 100),
       Venue(100, 100), Venue(-5000, 17000)>> >>

\* the tables heatmap_venues the program may find: category -> venues
Tables ==
  {[category \in Categories |-> Towns[((category + w) % Len(Towns)) + 1]] :
     w \in 1..Len(Towns)}

\* ------------------------------------------------------------ the state
VARIABLES
  todo,            \* the run methods the program is still to be run with
  finished,        \* what each earlier run left: its method, units, uploads
  run_method,      \* generate_all_heatmaps_by_city's argument
  venues,          \* the table heatmap_venues
  zoom_parameters, \* the table ZOOM_PARAMETERS
  failed,          \* the calls of external services that fail
  passed,          \* the calls of external services that succeeded
  cat, z,          \* the loop variables of generate_all_heatmaps_by_city
  frame,           \* "try" or "except": where the loop body stands
  radius,          \* generate_heatmap_by_city's argument
  pc,              \* the statement the program stands at
  pts, tiles, img, \* generate_heatmap_by_city's locals
  ij, count,       \* the cell (i, j) of the cutting loop, and its counter
  calls,           \* unit -> the calls of generate_heatmap_by_city so far
  published,       \* the bucket: file name -> image, as uploaded in this run
  error,           \* the exception that ended the run
  probe,           \* the input and result of a function tried on its own
  queue,           \* generate_heatmap_by_tile: the tiles still to run
  tile_pts,        \* generate_tile's pts
  tile_calls       \* the calls of generate_tile for the unit so far

vars == <<todo, finished, run_method, venues, zoom_parameters, failed, passed,
          cat, z, frame, radius, pc, pts, tiles, img, ij, count, calls,
          published, error, probe, queue, tile_pts, tile_calls>>

env == <<venues, zoom_parameters>>
locals == <<pts, tiles, img, ij, count>>
loop == <<cat, z, frame, radius>>
outer == <<todo, finished, run_method>>
bytile == <<queue, tile_pts, tile_calls>>

NoImage == Heatmap(<<>>, 0, 0, <<0, 0>>)
NoFiles == [key \in {} |-> NoImage]
NoCalls == [u \in Units |-> <<>>]
NoProbe == [fn |-> "none"]

\* ------------------------------------------------------------ bookkeeping
Unit == <<cat, z>>
Current == calls[Unit][Len(calls[Unit])]
SetCurrent(call) == calls' = [calls EXCEPT ![Unit] = [@ EXCEPT ![Len(@)] = call]]
NewCall(r) == [radius |-> r, result |-> "running", rendered |-> 0, uploaded |-> {}]

\* One request to an external service: the database (the query of a category
\* and a radius), the rasterizer (a canvas of a size) or S3 (a file). The
\* services are deterministic: a request that was seen to raise (or to succeed)
\* does the same whenever it is made again, in this run or a later one.
Fails(site) ==
  /\ site \notin passed
  /\ site \in failed \/ Cardinality(failed) < MaxFaults
  /\ failed' = failed \cup {site}
  /\ passed' = passed
Passes(site) ==
  /\ site \notin failed
  /\ passed' = passed \cup {site}
  /\ failed' = failed

\* an exception leaves generate_heatmap_by_city
Raise(exception, call) ==
  /\ pc' = "raise"
  /\ error' = exception
  /\ SetCurrent([call EXCEPT !.result = "raised"])

\* generate_heatmap_by_city returns
Return(result, call) ==
  /\ pc' = "return"
  /\ error' = error
  /\ SetCurrent([call EXCEPT !.result = result])

\* s3_client.upload_file(file_name, bucket, file_name): the key is overwritten
Upload(bucket, file_name, image) ==
  [key \in DOMAIN bucket \cup {file_name} |->
     IF key = file_name THEN image ELSE bucket[key]]

\* what a run leaves behind
Processed == {u \in Units : calls[u] # <<>>}
RunResult ==
  [run_method |-> run_method, processed |-> Processed,
   published |-> published, error |-> error]

\* the test for points, letting an empty list through
HasPointsOrNone(points) == Len(points) >= 0

\* if total_venues > 0: ... if len(pts) > 0:
HasPoints(points) == Len(points) > 0

\* the test for a tile to run, taking every tile of the bounding box
ShouldRunInBox(x, y, tile_list) ==
  /\ \E t \in tile_list : t[1] = x
  /\ \E t \in tile_list : t[2] = y

\* if (x, y) in tiles: the tile of the bounding box is one to run
ShouldRun(x, y, tile_list) == <<x, y>> \in tile_list

\* ------------------------------------------------------------ the loops
\* the except clause calling with the radius of the try clause
RetryRadiusSame(new_radius) == new_radius

\* the radius of the call in the except clause
RetryRadius(new_radius) == new_radius - 2500

\* The unit after (category, zoom_level) in the loop nest of the run method,
\* <<0, 0>> after the last one
NextUnitOf(method, category, zoom_level) ==
  IF method = RUN_BY_CATEGORY
  THEN IF zoom_level + ZOOM_STEP <= MAX_ZOOM THEN <<category, zoom_level + ZOOM_STEP>>
       ELSE IF category + 1 <= MaxCategory THEN <<category + 1, MIN_ZOOM>>
       ELSE <<0, 0>>
  ELSE IF category + 1 <= MaxCategory THEN <<category + 1, zoom_level>>
       ELSE IF zoom_level + ZOOM_STEP <= MAX_ZOOM THEN <<1, zoom_level + ZOOM_STEP>>
       ELSE <<0, 0>>

\* generate_all_heatmaps_by_city is entered
GenerateAll ==
  /\ pc = "call"
  /\ IF run_method \in {RUN_BY_CATEGORY, RUN_BY_ZOOM}
     THEN pc' = "loop" /\ error' = error
     ELSE pc' = "aborted" /\ error' = "ValueError"
  /\ cat' = 1 /\ z' = MIN_ZOOM
  /\ UNCHANGED <<outer, env, failed, passed, frame, radius, locals, calls,
                 published, probe, bytile>>

\* try: generate_heatmap_by_city(cat, z, lat, lng, new_radius)
Try ==
  /\ pc = "loop"
  /\ frame' = "try"
  /\ radius' = RADIUS
  /\ calls' = [calls EXCEPT ![Unit] = Append(@, NewCall(RADIUS))]
  /\ pc' = "fetch"
  /\ pts' = <<>> /\ tiles' = {} /\ img' = NoImage /\ ij' = <<0, 0>> /\ count' = 1
  /\ UNCHANGED <<outer, env, failed, passed, cat, z, published, error, probe, bytile>>

\* except: generate_heatmap_by_city(cat, z, lat, lng, new_radius - 2500)
Except ==
  /\ pc = "raise"
  /\ frame = "try"
  /\ frame' = "except"
  /\ radius' = RetryRadius(RADIUS)
  /\ calls' = [calls EXCEPT ![Unit] = Append(@, NewCall(RetryRadius(RADIUS)))]
  /\ pc' = "fetch"
  /\ error' = "none"
  /\ pts' = <<>> /\ tiles' = {} /\ img' = NoImage /\ ij' = <<0, 0>> /\ count' = 1
  /\ UNCHANGED <<outer, env, failed, passed, cat, z, published, probe, bytile>>

\* an exception raised in the except clause leaves the loops and the function
Propagate ==
  /\ pc = "raise"
  /\ frame = "except"
  /\ pc' = "aborted"
  /\ UNCHANGED <<outer, env, failed, passed, loop, locals, calls, published,
                 error, probe, bytile>>

\* the loop body is over: the next unit of the loop nest, or the end of the run
NextUnit ==
  /\ pc = "return"
  /\ LET next == NextUnitOf(run_method, cat, z)
     IN  IF next = <<0, 0>>
         THEN pc' = "done" /\ cat' = cat /\ z' = z
         ELSE pc' = "loop" /\ cat' = next[1] /\ z' = next[2]
  /\ UNCHANGED <<outer, env, failed, passed, frame, radius, locals, calls,
                 published, error, probe, bytile>>

\* the program is run again, with the next run method, on the same data
Rerun ==
  /\ pc \in {"done", "aborted"}
  /\ todo # <<>>
  /\ finished' = Append(finished, RunResult)
  /\ run_method' = Head(todo)
  /\ todo' = Tail(todo)
  /\ pc' = "call"
  /\ cat' = 1 /\ z' = MIN_ZOOM /\ frame' = "try" /\ radius' = RADIUS
  /\ pts' = <<>> /\ tiles' = {} /\ img' = NoImage /\ ij' = <<0, 0>> /\ count' = 1
  /\ calls' = NoCalls /\ published' = NoFiles /\ error' = "none"
  /\ UNCHANGED <<env, failed, passed, probe, bytile>>

\* ------------------------------------------------------------ generate_heatmap_by_city
\* the query for the venues of the category within radius of the centre
Fetch ==
  /\ pc = "fetch"
  /\ \/ /\ Fails(<<"fetch", cat, radius>>)
        /\ Raise("Error", Current)
        /\ pts' = pts
     \/ /\ Passes(<<"fetch", cat, radius>>)
        /\ pts' = Query(venues, cat, Coord[1], Coord[2], radius)
        /\ pc' = "cluster"
        /\ UNCHANGED <<calls, error>>
  /\ UNCHANGED <<outer, env, loop, tiles, img, ij, count, published, probe, bytile>>

\* if total_venues > 0: cluster when the zoom level asks for it; go on only
\* if there are points left
Cluster ==
  /\ pc = "cluster"
  /\ IF ~HasPoints(pts)
     THEN Return("skipped", Current) /\ pts' = pts
     ELSE IF z \notin DOMAIN zoom_parameters
     THEN Raise("KeyError", Current) /\ pts' = pts
     ELSE /\ pts' = IF zoom_parameters[z].cluster
                    THEN Clustered(pts, zoom_parameters[z])
                    ELSE pts
          /\ IF HasPoints(pts')
             THEN pc' = "locate" /\ UNCHANGED <<calls, error>>
             ELSE Return("skipped", Current)
  /\ UNCHANGED <<outer, env, failed, passed, loop, tiles, img, ij, count,
                 published, probe, bytile>>

\* the tiles with venues in them, and the neighbors the venues bleed into
Locate ==
  /\ pc = "locate"
  /\ tiles' = LocateTiles(pts, z, zoom_parameters[z].dotsize)
  /\ pc' = "render"
  /\ UNCHANGED <<outer, env, failed, passed, loop, pts, img, ij, count, calls,
                 published, error, probe, bytile>>

\* one heatmap for the whole bounding box of the tiles
Render ==
  /\ pc = "render"
  /\ \/ /\ Fails(<<"render", CanvasSize(tiles)>>)
        /\ Raise("Error", Current)
        /\ UNCHANGED <<img, ij, count>>
     \/ /\ Passes(<<"render", CanvasSize(tiles)>>)
        /\ img' = Heatmap(NormalizedPts(pts, tiles, z),
                          zoom_parameters[z].opacity, zoom_parameters[z].dotsize,
                          CanvasSize(tiles))
        /\ ij' = <<0, 0>>
        /\ count' = 1
        /\ SetCurrent([Current EXCEPT !.rendered = @ + 1])
        /\ pc' = "slice"
        /\ error' = error
  /\ UNCHANGED <<outer, env, loop, pts, tiles, published, probe, bytile>>

\* One pass of the loops over i and j: the tile is cropped and uploaded if it
\* is one of tiles. After the last cell the function returns.
Slice ==
  /\ pc = "slice"
  /\ LET i == ij[1]
         j == ij[2]
         x == NwTile(tiles)[1] + i
         y == NwTile(tiles)[2] + j
         file_name == FileName(cat, z, x, y)
         last == i = NumXTiles(tiles) - 1 /\ j = NumYTiles(tiles) - 1
         Advance(call) ==
           /\ ij' = IF j + 1 < NumYTiles(tiles) THEN <<i, j + 1>> ELSE <<i + 1, 0>>
           /\ IF last
              THEN Return("done", call)
              ELSE pc' = "slice" /\ error' = error /\ SetCurrent(call)
     IN  \/ /\ ~ShouldRun(x, y, tiles)
            /\ Advance(Current)
            /\ UNCHANGED <<failed, passed, count, published>>
         \/ /\ ShouldRun(x, y, tiles)
            /\ Passes(<<"upload", file_name>>)
            /\ published' = Upload(published, file_name,
                                   [canvas |-> img, box |-> CropBox(i, j)])
            /\ count' = count + 1
            /\ Advance([Current EXCEPT !.uploaded = @ \cup {file_name}])
         \/ /\ ShouldRun(x, y, tiles)
            /\ Fails(<<"upload", file_name>>)
            /\ Raise("Error", Current)
            /\ UNCHANGED <<ij, count, published>>
  /\ UNCHANGED <<outer, env, loop, pts, tiles, img, probe, bytile>>

\* ------------------------------------------------------------ specification
Init ==
  /\ run_method \in {RUN_BY_CATEGORY, RUN_BY_ZOOM, RUN_BY_ZOOM + 1}
  /\ todo = IF run_method = RUN_BY_CATEGORY THEN <<RUN_BY_ZOOM>>
            ELSE IF run_method = RUN_BY_ZOOM THEN <<RUN_BY_CATEGORY>>
            ELSE <<>>
  /\ finished = <<>>
  /\ venues \in Tables
  /\ zoom_parameters = ZOOM_PARAMETERS
  /\ failed = {} /\ passed = {}
  /\ cat = 1 /\ z = MIN_ZOOM /\ frame = "try" /\ radius = RADIUS
  /\ pc = "call"
  /\ pts = <<>> /\ tiles = {} /\ img = NoImage /\ ij = <<0, 0>> /\ count = 1
  /\ calls = NoCalls /\ published = NoFiles /\ error = "none"
  /\ queue = <<>> /\ tile_pts = <<>> /\ tile_calls = <<>>
  /\ probe = NoProbe

Next ==
  \/ GenerateAll \/ Try \/ Except \/ Propagate \/ NextUnit \/ Rerun
  \/ Fetch \/ Cluster \/ Locate \/ Render \/ Slice

Spec == Init /\ [][Next]_vars

\* ------------------------------------------------------------ a table with a gap
\* ZOOM_PARAMETERS without the entry of one zoom level of the run
WithoutZoom(zoom_level) ==
  [zz \in DOMAIN ZOOM_PARAMETERS \ {zoom_level} |-> ZOOM_PARAMETERS[zz]]

InitConfig ==
  /\ run_method \in {RUN_BY_CATEGORY, RUN_BY_ZOOM, RUN_BY_ZOOM + 1}
  /\ todo = IF run_method = RUN_BY_CATEGORY THEN <<RUN_BY_ZOOM>>
            ELSE IF run_method = RUN_BY_ZOOM THEN <<RUN_BY_CATEGORY>>
            ELSE <<>>
  /\ finished = <<>>
  /\ venues \in Tables
  /\ zoom_parameters \in {WithoutZoom(zz) : zz \in Zooms}
  /\ failed = {} /\ passed = {}
  /\ cat = 1 /\ z = MIN_ZOOM /\ frame = "try" /\ radius = RADIUS
  /\ pc = "call"
  /\ pts = <<>> /\ tiles = {} /\ img = NoImage /\ ij = <<0, 0>> /\ count = 1
  /\ calls = NoCalls /\ published = NoFiles /\ error = "none"
  /\ queue = <<>> /\ tile_pts = <<>> /\ tile_calls = <<>>
  /\ probe = NoProbe

SpecConfig == InitConfig /\ [][Next]_vars

\* ------------------------------------------------------------ functions on their own
\* the program is not running
Idle ==
  /\ run_method = RUN_BY_ZOOM /\ todo = <<>> /\ finished = <<>>
  /\ venues \in Tables /\ venues[1] = <<>>
  /\ zoom_parameters = ZOOM_PARAMETERS
  /\ failed = {} /\ passed = {}
  /\ cat = 1 /\ z = MIN_ZOOM /\ frame = "try" /\ radius = RADIUS
  /\ pc = "idle"
  /\ pts = <<>> /\ tiles = {} /\ img = NoImage /\ ij = <<0, 0>> /\ count = 1
  /\ calls = NoCalls /\ published = NoFiles /\ error = "none"
  /\ queue = <<>> /\ tile_pts = <<>> /\ tile_calls = <<>>

main == <<todo, finished, run_method, venues, zoom_parameters, failed, passed,
          cat, z, frame, radius, pc, pts, tiles, img, ij, count, calls,
          published, error, queue, tile_pts, tile_calls>>

\* --- the edge-bleed tests, for a pixel of a tile and a dot size
Dotsizes ==
  {ZOOM_PARAMETERS[zz].dotsize : zz \in DOMAIN ZOOM_PARAMETERS} \cup (1..MaxDotsize)

\* Pixel positions (in 1/den): the west edge, the middle, the east edge, and
\* those within 1/den of where a test changes its answer
PixelsNear(dotsize, den) ==
  {n \in 0..((TILE_RESOLUTION - 1) * den) :
     \/ n \in {0, (TILE_RESOLUTION \div 2) * den, (TILE_RESOLUTION - 1) * den}
     \/ Abs(n - dotsize * den) <= 1
     \/ Abs((TILE_RESOLUTION * den - n) - dotsize * den) <= 1}

InitBleed ==
  /\ Idle
  /\ \E dotsize \in Dotsizes, den \in 1..MaxDen,
        tile \in {<<0, 0>>, convert_coords_to_tile(Coord[1], Coord[2], MIN_ZOOM)} :
       \E pixel_x \in PixelsNear(dotsize, den), pixel_y \in PixelsNear(dotsize, den) :
         probe = [fn |-> "neighbors", pixel_x |-> pixel_x, pixel_y |-> pixel_y,
                  den |-> den, x |-> tile[1], y |-> tile[2], dotsize |-> dotsize,
                  done |-> FALSE, out |-> {}]

ApplyNeighborTiles ==
  /\ probe.fn = "neighbors"
  /\ ~probe.done
  /\ probe' = [probe EXCEPT
                 !.done = TRUE,
                 !.out = NeighborTiles(probe.pixel_x, probe.pixel_y, probe.den,
                                       probe.x, probe.y, probe.dotsize)]
  /\ UNCHANGED main

SpecBleed == InitBleed /\ [][ApplyNeighborTiles]_vars

\* --- the clustering step, for a list of points and a zoom level
LinePoints == {Venue(0, 0), Venue(400, 0), Venue(800, 0), Venue(2000, 0)}
PointLists == UNION {[1..n -> LinePoints] : n \in 1..MaxPoints}

InitCluster ==
  /\ Idle
  /\ \E points \in PointLists, zoom_level \in Zooms :
       probe = [fn |-> "cluster", points |-> points, zoom_level |-> zoom_level,
                stage |-> 0, once |-> <<>>, twice |-> <<>>]

ClusterOnce ==
  /\ probe.fn = "cluster"
  /\ probe.stage = 0
  /\ probe' = [probe EXCEPT
                 !.stage = 1,
                 !.once = Clustered(probe.points, ZOOM_PARAMETERS[probe.zoom_level])]
  /\ UNCHANGED main

ClusterTwice ==
  /\ probe.fn = "cluster"
  /\ probe.stage = 1
  /\ probe' = [probe EXCEPT
                 !.stage = 2,
                 !.twice = Clustered(probe.once, ZOOM_PARAMETERS[probe.zoom_level])]
  /\ UNCHANGED main

NextCluster == ClusterOnce \/ ClusterTwice

SpecCluster == InitCluster /\ [][NextCluster]_vars

\* --- the cutting loop, for a set of tiles
\* the tiles of a box whose north-west tile is the tile of the centre
Grid ==
  LET nw == convert_coords_to_tile(Coord[1], Coord[2], MIN_ZOOM)
  IN  {<<nw[1] + a, nw[2] + b>> : a \in 0..(GridWidth - 1), b \in 0..(GridHeight - 1)}

\* a venue (lng, lat) in the middle of the tile
TileCentre(tile, zoom_level) ==
  LET coords == convert_point_to_coords(tile[1], tile[2], zoom_level)
  IN  <<coords[2] + TileSpan(zoom_level) \div 2, coords[1] - TileSpan(zoom_level) \div 2>>

RECURSIVE ListOf(_)
ListOf(set) ==
  IF set = {} THEN <<>>
  ELSE LET first == CHOOSE t \in set : \A u \in set : t[1] < u[1] \/ (t[1] = u[1] /\ t[2] <= u[2])
       IN  <<first>> \o ListOf(set \ {first})

\* generate_heatmap_by_city has made the heatmap of venues in the middle of
\* the tiles of some set, and is about to cut it
InitSlice ==
  /\ run_method = RUN_BY_ZOOM /\ todo = <<>> /\ finished = <<>>
  /\ venues \in Tables /\ venues[1] = <<>>
  /\ zoom_parameters = ZOOM_PARAMETERS
  /\ failed = {} /\ passed = {}
  /\ cat = 1 /\ z = MIN_ZOOM /\ frame = "try" /\ radius = RADIUS
  /\ pc = "slice"
  /\ \E active \in (SUBSET Grid) \ {{}} :
       pts = [k \in 1..Cardinality(active) |-> TileCentre(ListOf(active)[k], MIN_ZOOM)]
  /\ tiles = LocateTiles(pts, MIN_ZOOM, ZOOM_PARAMETERS[MIN_ZOOM].dotsize)
  /\ img = Heatmap(NormalizedPts(pts, tiles, MIN_ZOOM),
                   ZOOM_PARAMETERS[MIN_ZOOM].opacity,
                   ZOOM_PARAMETERS[MIN_ZOOM].dotsize, CanvasSize(tiles))
  /\ ij = <<0, 0>> /\ count = 1
  /\ calls = [NoCalls EXCEPT ![<<1, MIN_ZOOM>>] =
                <<[NewCall(RADIUS) EXCEPT !.rendered = 1]>>]
  /\ published = NoFiles /\ error = "none"
  /\ queue = <<>> /\ tile_pts = <<>> /\ tile_calls = <<>>
  /\ probe = NoProbe

SpecSlice == InitSlice /\ [][Slice]_vars

\* ------------------------------------------------------------ tile by tile
\* generate_heatmap_by_tile reads heatmap_venues and generate_tile reads
\* heatmaps_venues: the two relations are taken to hold the same venues.

\* generate_heatmap_by_tile's query: the rows within RADIUS, kept as (lat, lng)
QueryLatLng(table, category, lat, lng, r) ==
  LET rows == Query(table, category, lat, lng, r)
  IN  [k \in 1..Len(rows) |-> <<rows[k][2], rows[k][1]>>]

\* generate_tile's query: the rows in ST_MakeEnvelope(min lng, min lat, max lng,
\* max lat), borders included, kept as (lng, lat)
QueryEnvelope(table, category, min_coords, max_coords) ==
  SelectSeq(table[category],
            LAMBDA row : /\ min_coords[2] <= row[1] /\ row[1] <= max_coords[2]
                         /\ min_coords[1] <= row[2] /\ row[2] <= max_coords[1])

\* generate_heatmap_by_tile's tiles: the tile of each venue (lat, lng)
TilesOf(points, zoom_level) ==
  {convert_coords_to_tile(points[k][1], points[k][2], zoom_level) :
     k \in 1..Len(points)}

\* generate_tile's tile_pts, as the rasterizer reads them: int(lng), int(lat)
TilePts(points, x, y, zoom_level) ==
  LET min_coords == convert_point_to_coords(x, y + 1, zoom_level)
      max_coords == convert_point_to_coords(x + 1, y, zoom_level)
  IN  [k \in 1..Len(points) |->
        <<Floor((points[k][1] - min_coords[2]) * (TILE_RESOLUTION - 1),
                max_coords[2] - min_coords[2]),
          Floor((max_coords[1] - points[k][2]) * (TILE_RESOLUTION - 1),
                max_coords[1] - min_coords[1])>>]

\* generate_tile(category, zoom, x, y) is entered
NewTileCall(x, y) == [x |-> x, y |-> y, result |-> "running"]

\* generate_tile returns: the loop of generate_heatmap_by_tile goes on
TileReturn(result) ==
  /\ tile_calls' = [tile_calls EXCEPT ![Len(tile_calls)].result = result]
  /\ queue' = Tail(queue)
  /\ pc' = "next_tile"
  /\ error' = error

\* nothing catches an exception here: it leaves generate_tile,
\* generate_heatmap_by_tile and generate_all_heatmaps_by_tile
TileRaise(exception) ==
  /\ pc' = "aborted"
  /\ error' = exception

\* generate_all_heatmaps_by_tile is entered
GenerateAllByTile ==
  /\ pc = "call_tile"
  /\ IF run_method \in {RUN_BY_CATEGORY, RUN_BY_ZOOM}
     THEN pc' = "unit_tile" /\ error' = error
     ELSE pc' = "aborted" /\ error' = "ValueError"
  /\ cat' = 1 /\ z' = MIN_ZOOM
  /\ UNCHANGED <<outer, env, failed, passed, frame, radius, locals, calls,
                 published, probe, bytile>>

\* generate_heatmap_by_tile: the query for the venues within RADIUS
FetchByTile ==
  /\ pc = "unit_tile"
  /\ \/ /\ Fails(<<"fetch", cat, RADIUS>>)
        /\ TileRaise("Error")
        /\ UNCHANGED <<pts, tile_calls>>
     \/ /\ Passes(<<"fetch", cat, RADIUS>>)
        /\ pts' = QueryLatLng(venues, cat, Coord[1], Coord[2], RADIUS)
        /\ tile_calls' = <<>>
        /\ pc' = "locate_tile"
        /\ error' = error
  /\ UNCHANGED <<outer, env, loop, tiles, img, ij, count, calls, published,
                 probe, queue, tile_pts>>

\* generate_heatmap_by_tile: the tiles with venues in them, sorted
LocateByTile ==
  /\ pc = "locate_tile"
  /\ tiles' = TilesOf(pts, z)
  /\ queue' = ListOf(tiles')
  /\ pc' = "next_tile"
  /\ UNCHANGED <<outer, env, failed, passed, loop, pts, img, ij, count, calls,
                 published, error, probe, tile_pts, tile_calls>>

\* "for tile in tiles": generate_tile is called for the next tile; after the
\* last one generate_heatmap_by_tile returns and the loop nest goes on
NextTile ==
  /\ pc = "next_tile"
  /\ IF queue # <<>>
     THEN /\ tile_calls' = Append(tile_calls, NewTileCall(Head(queue)[1], Head(queue)[2]))
          /\ pc' = "tile_fetch"
          /\ UNCHANGED <<cat, z>>
     ELSE /\ LET next == NextUnitOf(run_method, cat, z)
             IN  IF next = <<0, 0>>
                 THEN pc' = "done" /\ cat' = cat /\ z' = z
                 ELSE pc' = "unit_tile" /\ cat' = next[1] /\ z' = next[2]
          /\ tile_calls' = tile_calls
  /\ UNCHANGED <<outer, env, failed, passed, frame, radius, locals, calls,
                 published, error, probe, queue, tile_pts>>

\* generate_tile: the query for the venues within the tile
TileFetch ==
  /\ pc = "tile_fetch"
  /\ LET x == Head(queue)[1]
         y == Head(queue)[2]
         min_coords == convert_point_to_coords(x, y + 1, z)
         max_coords == convert_point_to_coords(x + 1, y, z)
     IN  \/ /\ Fails(<<"fetch_tile", cat, z, x, y>>)
            /\ TileRaise("Error")
            /\ UNCHANGED <<queue, tile_pts, tile_calls>>
         \/ /\ Passes(<<"fetch_tile", cat, z, x, y>>)
            /\ tile_pts' = QueryEnvelope(venues, cat, min_coords, max_coords)
            /\ IF HasPoints(tile_pts')
               THEN pc' = "tile_cluster" /\ UNCHANGED <<queue, tile_calls, error>>
               ELSE TileReturn("empty")
  /\ UNCHANGED <<outer, env, loop, locals, calls, published, probe>>

\* generate_tile: cluster when the zoom level asks for it; go on only if
\* there are points left
TileCluster ==
  /\ pc = "tile_cluster"
  /\ IF z \notin DOMAIN zoom_parameters
     THEN TileRaise("KeyError") /\ UNCHANGED <<queue, tile_pts, tile_calls>>
     ELSE /\ tile_pts' = IF zoom_parameters[z].cluster
                         THEN Clustered(tile_pts, zoom_parameters[z])
                         ELSE tile_pts
          /\ IF HasPoints(tile_pts')
             THEN pc' = "tile_render" /\ UNCHANGED <<queue, tile_calls, error>>
             ELSE TileReturn("skipped")
  /\ UNCHANGED <<outer, env, failed, passed, loop, locals, calls, published,
                 probe>>

\* generate_tile: the heatmap of the tile
TileRender ==
  /\ pc = "tile_render"
  /\ \/ /\ Fails(<<"render", <<TILE_RESOLUTION, TILE_RESOLUTION>>>>)
        /\ TileRaise("Error")
        /\ img' = img
     \/ /\ Passes(<<"render", <<TILE_RESOLUTION, TILE_RESOLUTION>>>>)
        /\ img' = Heatmap(TilePts(tile_pts, Head(queue)[1], Head(queue)[2], z),
                          zoom_parameters[z].opacity, zoom_parameters[z].dotsize,
                          <<TILE_RESOLUTION, TILE_RESOLUTION>>)
        /\ pc' = "tile_upload"
        /\ error' = error
  /\ UNCHANGED <<outer, env, loop, pts, tiles, ij, count, calls, published,
                 probe, bytile>>

\* generate_tile: the image is saved whole and uploaded
TileUpload ==
  /\ pc = "tile_upload"
  /\ LET file_name == FileName(cat, z, Head(queue)[1], Head(queue)[2])
     IN  \/ /\ Fails(<<"upload", file_name>>)
            /\ TileRaise("Error")
            /\ UNCHANGED <<published, queue, tile_calls>>
         \/ /\ Passes(<<"upload", file_name>>)
            /\ published' = Upload(published, file_name,
                                   [canvas |-> img, box |-> CropBox(0, 0)])
            /\ TileReturn("done")
  /\ UNCHANGED <<outer, env, loop, locals, calls, probe, tile_pts>>

InitTile ==
  /\ run_method \in {RUN_BY_CATEGORY, RUN_BY_ZOOM, RUN_BY_ZOOM + 1}
  /\ todo = <<>> /\ finished = <<>>
  /\ venues \in Tables
  /\ zoom_parameters = ZOOM_PARAMETERS
  /\ failed = {} /\ passed = {}
  /\ cat = 1 /\ z = MIN_ZOOM /\ frame = "try" /\ radius = RADIUS
  /\ pc = "call_tile"
  /\ pts = <<>> /\ tiles = {} /\ img = NoImage /\ ij = <<0, 0>> /\ count = 1
  /\ calls = NoCalls /\ published = NoFiles /\ error = "none"
  /\ queue = <<>> /\ tile_pts = <<>> /\ tile_calls = <<>>
  /\ probe = NoProbe

NextTileMode ==
  \/ GenerateAllByTile \/ FetchByTile \/ LocateByTile \/ NextTile
  \/ TileFetch \/ TileCluster \/ TileRender \/ TileUpload

SpecTile == InitTile /\ [][NextTileMode]_vars

\* ------------------------------------------------------------ the edge of the grid
\* lng of a venue: -180 (the west edge of the plane), the middle of the
\* westmost tile, the middle of the plane, just west of 180, and 180
EdgeLngs(zoom_level) ==
  {0, TileSpan(zoom_level) \div 2, World \div 2, World - 1, World}

\* lat of a venue: the north edge of the plane, the middle of the northmost
\* tile, and the middle of the plane
EdgeLats(zoom_level) ==
  {World, World - TileSpan(zoom_level) \div 2, World \div 2}

\* the venues of a category: a cluster of four venues at one place (lng, lat),
\* or two such clusters, in the middle of a tile and of its south-east neighbor
EdgeTowns(zoom_level) ==
  {<<v, v, v, v>> : v \in EdgeLngs(zoom_level) \X EdgeLats(zoom_level)}
  \cup {<<v, v, v, v, w, w, w, w>> :
          v \in {TileCentre(<<0, 0>>, zoom_level)},
          w \in {TileCentre(<<1, 1>>, zoom_level)}}

\* generate_heatmap_by_city, called for a centre near the edge of the plane,
\* has fetched and clustered the venues and is about to locate the tiles
InitGrid ==
  /\ run_method = RUN_BY_ZOOM /\ todo = <<>> /\ finished = <<>>
  /\ zoom_parameters = ZOOM_PARAMETERS
  /\ failed = {} /\ passed = {}
  /\ cat = 1 /\ z \in Zooms /\ frame = "try" /\ radius = RADIUS
  /\ pc = "locate"
  /\ pts \in EdgeTowns(z)
  /\ venues = [category \in Categories |-> IF category = 1 THEN pts ELSE <<>>]
  /\ pts = Clustered(pts, ZOOM_PARAMETERS[z])
  /\ tiles = {} /\ img = NoImage /\ ij = <<0, 0>> /\ count = 1
  /\ calls = [NoCalls EXCEPT ![<<1, z>>] = <<NewCall(RADIUS)>>]
  /\ published = NoFiles /\ error = "none"
  /\ queue = <<>> /\ tile_pts = <<>> /\ tile_calls = <<>>
  /\ probe = NoProbe

NextGrid == Locate \/ Render \/ Slice

SpecGrid == InitGrid /\ [][NextGrid]_vars

\* ------------------------------------------------------------ properties
RunEnded == pc \in {"done", "aborted"}
ValidMethod == run_method \in {RUN_BY_CATEGORY, RUN_BY_ZOOM}

\* C1: a run by category and a run by zoom on the same centre, table and
\* services leave the same units processed and the same files with the same
\* images: when the second run has ended, it left what the first run left.
OrderIndependence ==
  (RunEnded /\ finished # <<>>) =>
     /\ finished[1].processed = Processed
     /\ finished[1].published = published

\* C2: a unit that fails never ends the run: when a run with a valid run
\* method has ended, every unit of the matrix has been processed, and a unit
\* whose calls all raised is only one among them.
UnitIsolation ==
  (RunEnded /\ ValidMethod) => Processed = Units

\* C3: a unit is called once with RADIUS; it is called a second time, with
\* RADIUS - 2500, exactly when the first call raised; it is never called a
\* third time; and an exception ends the run only after both calls raised.
RetryOnce ==
  /\ \A u \in Units :
       LET c == calls[u]
           left == u # Unit \/ RunEnded \/ pc = "return"
       IN  /\ Len(c) <= 2
           /\ Len(c) >= 1 => c[1].radius = 17500
           /\ Len(c) = 2 => /\ c[1].result = "raised"
                            /\ c[2].radius = 17500 - 2500
                            /\ c[2].radius < c[1].radius
           /\ (Len(c) >= 1 /\ left /\ c[1].result = "raised") => Len(c) = 2
  /\ (pc = "aborted" /\ ValidMethod) =>
       /\ Len(calls[Unit]) = 2
       /\ calls[Unit][1].result = "raised"
       /\ calls[Unit][2].result = "raised"

\* C3 witness: the first call of a unit raised and its second call, with the
\* smaller radius, returned after cutting the heatmap
RetryOnceWitness ==
  \E u \in Units :
    /\ Len(calls[u]) = 2
    /\ calls[u][1].result = "raised"
    /\ calls[u][2].radius < calls[u][1].radius
    /\ calls[u][2].result = "done"

\* C4: when ZOOM_PARAMETERS has no entry for a zoom level of the run, the run
\* ends with the KeyError, no unit of that zoom level is skipped or done, and
\* no unit of that zoom level is called a second time.
MissingProfileIsFatal ==
  \A zz \in Zooms \ DOMAIN zoom_parameters :
    /\ (RunEnded /\ ValidMethod) => error = "KeyError"
    /\ \A c \in Categories :
         /\ Len(calls[<<c, zz>>]) <= 1
         /\ \A k \in 1..Len(calls[<<c, zz>>]) :
              calls[<<c, zz>>][k].result \notin {"skipped", "done"}

\* C5: with no points left (none fetched, or all removed as noise) the call
\* returns as skipped, and only then; it never reaches the tiles, the
\* rasterizer or an upload; it raises nothing, and no second call follows it.
SkipIsQuiet ==
  /\ pc \in {"locate", "render", "slice"} => Len(pts) > 0
  /\ pc = "return" =>
       /\ (Len(pts) = 0) <=> (Current.result = "skipped")
       /\ Current.result = "skipped" => error = "none"
  /\ \A u \in Units : \A k \in 1..Len(calls[u]) :
       calls[u][k].result = "skipped" =>
         /\ calls[u][k].rendered = 0
         /\ calls[u][k].uploaded = {}
         /\ k = Len(calls[u])

\* C5 witness: venues were fetched, clustering removed them all, and the call
\* returned as skipped
SkipIsQuietWitness ==
  /\ pc = "return"
  /\ Current.result = "skipped"
  /\ Len(Query(venues, cat, Coord[1], Coord[2], radius)) > 0
  /\ pts = <<>>

\* C6: the cutting loop uploads the tile of a cell exactly when the cell is
\* one of tiles, once, cropped from the cell's square of the heatmap: no file
\* of another cell is ever uploaded, and when the loop is over there is one
\* file for each of tiles.
SliceEmitsActiveTiles ==
  LET nw == NwTile(tiles)
      FileOf(t) == <<cat, z, t[1], t[2]>>
  IN  /\ DOMAIN published \subseteq {FileOf(t) : t \in tiles}
      /\ count - 1 = Cardinality(DOMAIN published)
      /\ \A t \in tiles :
           FileOf(t) \in DOMAIN published =>
             /\ published[FileOf(t)].canvas = img
             /\ published[FileOf(t)].box =
                  <<256 * (t[1] - nw[1]), 256 * (t[2] - nw[2]),
                    256 * (t[1] - nw[1] + 1), 256 * (t[2] - nw[2] + 1)>>
      /\ pc = "return" => DOMAIN published = {FileOf(t) : t \in tiles}

\* C6 witness: three tiles of a square of four were cut and uploaded, and the
\* fourth, inside the bounding box, was not
SliceEmitsActiveTilesWitness ==
  LET nw == NwTile(tiles)
  IN  /\ pc = "return"
      /\ tiles = {nw, <<nw[1] + 1, nw[2]>>, <<nw[1], nw[2] + 1>>}
      /\ Cardinality(DOMAIN published) = 3
      /\ <<cat, z, nw[1] + 1, nw[2] + 1>> \notin DOMAIN published

\* C7: whatever the dot size d > 0, a point at pixel (0, h/2) adds the west
\* neighbor and a point at pixel (TILE_RESOLUTION - 1, h/2) adds the east one.
EdgeBleedSymmetry ==
  (probe.fn = "neighbors" /\ probe.done /\ probe.dotsize > 0
     /\ probe.pixel_y = (TILE_RESOLUTION \div 2) * probe.den) =>
    /\ probe.pixel_x = 0 => <<probe.x - 1, probe.y>> \in probe.out
    /\ probe.pixel_x = (TILE_RESOLUTION - 1) * probe.den =>
         <<probe.x + 1, probe.y>> \in probe.out

\* C8: clustering the clustered list again, with the same epsilon and
\* neighbors, gives the same list.
ClusterIdempotent ==
  (probe.fn = "cluster" /\ probe.stage = 2) => probe.twice = probe.once

\* the list without the points labelled noise
RECURSIVE WithoutNoise(_, _, _)
WithoutNoise(points, labels, n) ==
  IF n = 0 THEN <<>>
  ELSE IF labels[n] = -1 THEN WithoutNoise(points, labels, n - 1)
       ELSE Append(WithoutNoise(points, labels, n - 1), points[n])

\* C9: the list after the clustering step is the list before it without the
\* points labelled noise: each noise point is dropped, each other point kept.
NoiseRemoved ==
  (probe.fn = "cluster" /\ probe.stage >= 1) =>
    LET params == ZOOM_PARAMETERS[probe.zoom_level]
        labels == DBSCAN(probe.points, params.cluster_epsilon, params.cluster_neighbors)
    IN  probe.once = WithoutNoise(probe.points, labels, Len(probe.points))

\* C10: with left = px, top = py, right = 256 - px and bottom = 256 - py, the
\* neighbor in a direction is added exactly when each distance of that
\* direction (one for west, north, east, south; two for a corner) is less
\* than the dot size, and nothing but neighbors is added.
BleedRule ==
  (probe.fn = "neighbors" /\ probe.done) =>
    LET d == probe.dotsize * probe.den
        left == probe.pixel_x
        top == probe.pixel_y
        right == 256 * probe.den - probe.pixel_x
        bottom == 256 * probe.den - probe.pixel_y
        Near(dx, dy) ==
          /\ dx = -1 => left < d
          /\ dx = 1 => right < d
          /\ dy = -1 => top < d
          /\ dy = 1 => bottom < d
    IN  /\ \A dx \in {-1, 0, 1}, dy \in {-1, 0, 1} :
             <<dx, dy>> # <<0, 0>> =>
               (<<probe.x + dx, probe.y + dy>> \in probe.out <=> Near(dx, dy))
        /\ \A t \in probe.out :
             /\ Abs(t[1] - probe.x) <= 1
             /\ Abs(t[2] - probe.y) <= 1
             /\ t # <<probe.x, probe.y>>

\* C10 witness: a point near the west and the north border, but not the east
\* or the south one: the west, north-west and north neighbors were added
BleedRuleWitness ==
  /\ probe.fn = "neighbors"
  /\ probe.done
  /\ probe.pixel_x < probe.dotsize * probe.den
  /\ probe.pixel_y < probe.dotsize * probe.den
  /\ probe.out = {<<probe.x - 1, probe.y>>, <<probe.x - 1, probe.y - 1>>,
                  <<probe.x, probe.y - 1>>}

\* the tiles of the unit have been located: tile by tile, citywide
LocatedByTile ==
  pc \in {"next_tile", "tile_fetch", "tile_cluster", "tile_render", "tile_upload"}
LocatedByCity == pc \in {"render", "slice"}

\* C11: in both modes the tiles are located after the filter, from the points
\* the filter left: tile by tile, the tiles of the unit (and so each tile
\* generate_tile is called for) are the tiles of the venues within RADIUS that
\* clustering keeps; citywide, they are the tiles and clipped neighbors of the
\* venues within radius that clustering keeps.
FilterBeforeLocate ==
  /\ LocatedByTile =>
       LET survivors == Clustered(Query(venues, cat, Coord[1], Coord[2], RADIUS),
                                  zoom_parameters[z])
           kept == {convert_coords_to_tile(survivors[k][2], survivors[k][1], z) :
                      k \in 1..Len(survivors)}
       IN  /\ tiles = kept
           /\ \A k \in 1..Len(tile_calls) :
                <<tile_calls[k].x, tile_calls[k].y>> \in kept
  /\ LocatedByCity =>
       tiles = LocateTiles(Clustered(Query(venues, cat, Coord[1], Coord[2], radius),
                                     zoom_parameters[z]),
                           z, zoom_parameters[z].dotsize)

\* the tile (x, y) is one of the 2^zoom_level x 2^zoom_level tiles of the grid
InGrid(x, y, zoom_level) ==
  /\ 0 <= x /\ x < 2 ^ zoom_level
  /\ 0 <= y /\ y < 2 ^ zoom_level

\* C12: every tile of the working tile set, with the clipped neighbors, and
\* every tile a file is uploaded for lies in the grid of its zoom level, also
\* for venues at lng 180 and venues of a tile at the edge of the grid.
TilesInGrid ==
  /\ \A t \in tiles : InGrid(t[1], t[2], z)
  /\ \A key \in DOMAIN published : InGrid(key[3], key[4], key[2])

\* the files of the unit that are in the bucket
PublishedFor(u) == {key \in DOMAIN published : key[1] = u[1] /\ key[2] = u[2]}

\* C13: a call of generate_heatmap_by_city that raised has uploaded nothing;
\* and when the second call of a unit returns after cutting its heatmap, the
\* files of the unit in the bucket are those of the tiles of that call.
AllOrNothing ==
  /\ \A u \in Units : \A k \in 1..Len(calls[u]) :
       calls[u][k].result = "raised" => calls[u][k].uploaded = {}
  /\ (pc = "return" /\ Len(calls[Unit]) = 2 /\ Current.result = "done") =>
       PublishedFor(Unit) = {<<cat, z, t[1], t[2]>> : t \in tiles}

====
